---- MODULE Spec2Model ----
\* A model of the USBTMC protocol layer of usbtmc (context.go): the Context and
\* Device state, the chunked Write, the doRead reassembly loop behind Read and
\* BulkRead, and the Command / Query facade.  The USB transport is the
\* environment: every bulk-OUT write may fail, every bulk-IN read delivers a
\* byte count (and, on the first transfer, a 12-byte header) that the device
\* chooses.
EXTENDS Integers, Sequences, FiniteSets, TLC

VARIABLES
    startTag,         \* Context.startTag
    bTag,             \* Device.bTag
    termChar,         \* Device.termChar
    termCharEnabled,  \* Device.termCharEnabled
    pc,               \* where the program is: "ctx", "idle", "write", "queryRead",
                      \* "read", "done", "panic", "closed"
    op,               \* the public method being executed
    cmd,              \* Command's local cmd
    p,                \* Write's argument p
    rbuf,             \* doRead's argument p (the caller buffer)
    useTermChar,      \* doRead's argument useTermChar
    pos,              \* the local pos of Write / doRead
    transfer,         \* doRead's local transfer
    respHdr,          \* temp[0:12] of readRemoveHeader, <<>> before it is read
    written,          \* number of leading caller-buffer bytes ever stored to
    outLog,           \* the bulk-OUT transfers of the current call, in order:
                      \* the bytes written, whether the transport took them,
                      \* and the function that wrote them
    inLog,            \* the bulk-IN reads of the current call, in order
    prevTag,          \* tag of the last header emitted before the current call
    entryTag,         \* Device.bTag when the current call was entered
    writeRet,         \* what the last Write returned
    readRet,          \* what the last doRead returned
    ret,              \* what the public method returned
    nOps              \* number of public calls made on the Device

vars == <<startTag, bTag, termChar, termCharEnabled, pc, op, cmd, p, rbuf,
          useTermChar, pos, transfer, respHdr, written, outLog, inLog,
          prevTag, entryTag, writeRet, readRet, ret, nOps>>

devVars == <<bTag, termChar, termCharEnabled>>

----------------------------------------------------------------------------
\* Program constants.

maxPacketSize == 512

usbtmcHeaderLen == 12

maxTransferSize == 512

bulkOutHeaderSize == 12

devDepMsgOut == 1

devDepMsgIn == 2

----------------------------------------------------------------------------
\* Bounds of the model.

\* public calls per Device
MaxOps == 2

\* largest caller buffer handed to Read / BulkRead
MaxBuf == 3

\* largest payload byte count a single raw read delivers (besides a full buffer)
MaxDeliver == 3

\* largest small transferSize a response header declares
MaxT == 3

\* short Write payloads have 0..MaxSmallLen bytes
MaxSmallLen == 4

\* the longest Write payload
MaxWriteLen == 1300

----------------------------------------------------------------------------
\* Helpers.

Min(a, b) == IF a < b THEN a ELSE b

\* bytes.Repeat([]byte{0x00}, k)
Zeros(k) == [i \in 1..k |-> 0]

\* binary.LittleEndian.PutUint32
PutUint32(n) ==
    << n % 256, (n \div 256) % 256, (n \div 65536) % 256,
       (n \div 16777216) % 256 >>

\* binary.LittleEndian.Uint32(b[lo:lo+4]), b indexed from 1
Uint32(b, lo) ==
    b[lo + 1] + 256 * b[lo + 2] + 65536 * b[lo + 3] + 16777216 * b[lo + 4]

\* the k-th byte (from 0) of the payload a caller writes
PayByte(k) == (k % 253) + 1

Payload(L) == [i \in 1..L |-> PayByte(i - 1)]

\* the k-th byte (from 0) of the data the device sends in one response
DevByte(k) == (k % 251) + 1

----------------------------------------------------------------------------
\* Tag sequencer and header codec.

nextbTag(t) == (t % 255) + 1

invertbTag(t) == 255 - t

encodeBulkOutHeader(tag, transferSize, eom) ==
    << devDepMsgOut, tag, invertbTag(tag), 0 >> \o PutUint32(transferSize)
        \o << (IF eom THEN 1 ELSE 0), 0, 0, 0 >>

encodeMsgInBulkOutHeader(tag, transferSize, termEnabled, tc) ==
    << devDepMsgIn, tag, invertbTag(tag), 0 >> \o PutUint32(transferSize)
        \o << (IF termEnabled THEN 2 ELSE 0), tc, 0, 0 >>

\* fields of a 12-byte header
HdrTag(h) == h[2]

HdrTagInverse(h) == h[3]

HdrTransferSize(h) == Uint32(h, 4)

HdrEOM(h) == h[9] % 2 = 1

HdrTermCharBit(h) == (h[9] \div 2) % 2 = 1

\* inHdrToString reports " bad inv" for such a header
BadInv(buf) == invertbTag(buf[2]) # buf[3]

----------------------------------------------------------------------------
\* Results.

NoRet == [n |-> 0, err |-> "none", s |-> << >>]

Ret(n, err) == [n |-> n, err |-> err, s |-> << >>]

----------------------------------------------------------------------------
\* Inputs of the environment and of the caller.

\* values handed to SetStartTag
StartTags == {0, 254}

\* payload lengths handed to Write: short ones, the ones around the chunk
\* size, and the longest
WriteLens ==
    LET C == maxTransferSize - bulkOutHeaderSize
    IN  (0..MaxSmallLen) \cup {C - 1, C, C + 1, 2 * C, 2 * C + 1, MaxWriteLen}

\* buffer lengths handed to Read / BulkRead: short ones, and one that needs a
\* temporary buffer of more than 512 bytes
ReadLens == (0..MaxBuf) \cup {maxPacketSize - usbtmcHeaderLen + 1}

\* a transferSize that uses all four bytes of the header field
BigTransfer == 1 * 16777216 + 2 * 65536 + 3 * 256 + 4

\* transferSize values a response header declares
TransferSizes == (0..MaxT) \cup {BigTransfer}

\* the header a device answers with: it echoes the request's tag, declares
\* transferSize T, and its tag inverse is right or corrupted
RespHeader(tag, invOK, T) ==
    << devDepMsgIn, tag, (IF invOK THEN 255 - tag ELSE (256 - tag) % 256), 0 >>
        \o PutUint32(T) \o << 1, 0, 0, 0 >>

RespHeaders == { RespHeader(bTag, invOK, T) : invOK \in BOOLEAN, T \in TransferSizes }

\* byte counts the transport reports for the first raw read of a call
FirstReadSizes(tempSz) ==
    { n \in ({0, usbtmcHeaderLen - 1}
              \cup (usbtmcHeaderLen..(usbtmcHeaderLen + MaxDeliver))
              \cup {tempSz}) : n <= tempSz }

\* byte counts the transport reports for a later raw read into left bytes
ContReadSizes(left) == 0..Min(left, MaxDeliver)

\* command texts: "*RST", " A \n" and the empty text
CmdTexts == { <<42, 82, 83, 84>>, <<32, 65, 32, 10>>, << >> }

----------------------------------------------------------------------------
\* Context.

Init ==
    /\ startTag = 1
    /\ bTag = 1
    /\ termChar = 10
    /\ termCharEnabled = TRUE
    /\ pc = "ctx"
    /\ op = "none"
    /\ cmd = << >>
    /\ p = << >>
    /\ rbuf = << >>
    /\ useTermChar = FALSE
    /\ pos = 0
    /\ transfer = 0
    /\ respHdr = << >>
    /\ written = 0
    /\ outLog = << >>
    /\ inLog = << >>
    /\ prevTag = -1
    /\ entryTag = 1
    /\ writeRet = NoRet
    /\ readRet = NoRet
    /\ ret = NoRet
    /\ nOps = 0

callVars == <<op, cmd, p, rbuf, useTermChar, pos, transfer, respHdr, written,
              outLog, inLog, prevTag, entryTag, writeRet, readRet, ret,
              nOps>>

SetStartTag(t) ==
    /\ pc = "ctx"
    /\ startTag' = t
    /\ UNCHANGED <<devVars, pc, callVars>>

\* the Device of defaultDevice, with the Context's start tag
NewDeviceByVIDPID ==
    /\ pc = "ctx"
    /\ \E found \in BOOLEAN :
         IF found
         THEN /\ termChar' = 10
              /\ termCharEnabled' = TRUE
              /\ bTag' = startTag
              /\ entryTag' = startTag
              /\ pc' = "idle"
         ELSE UNCHANGED <<devVars, pc, entryTag>>
    /\ UNCHANGED <<startTag, op, cmd, p, rbuf, useTermChar, pos, transfer, respHdr,
                   written, outLog, inLog, prevTag, writeRet, readRet, ret,
                   nOps>>

----------------------------------------------------------------------------
\* Entering a public method of the Device.

CanCall == pc = "idle" /\ nOps < MaxOps

\* tag of the last bulk-OUT header the Device emitted so far
LastTag ==
    IF outLog = << >> THEN prevTag ELSE HdrTag(outLog[Len(outLog)].data)

\* a fresh frame for the public method o
Enter(o) ==
    /\ op' = o
    /\ nOps' = nOps + 1
    /\ prevTag' = LastTag
    /\ entryTag' = bTag
    /\ inLog' = << >>
    /\ respHdr' = << >>
    /\ written' = 0
    /\ transfer' = 0
    /\ pos' = 0
    /\ writeRet' = NoRet
    /\ readRet' = NoRet

----------------------------------------------------------------------------
\* Write.

\* a Write that forgets the header when it sizes a chunk
ChunkLenNoHeader(len, at) ==
    IF len - at > maxTransferSize THEN maxTransferSize ELSE len - at

\* thisLen of one Write iteration
ChunkLen(len, at) ==
    IF len - at > maxTransferSize - bulkOutHeaderSize
    THEN maxTransferSize - bulkOutHeaderSize
    ELSE len - at

\* the eom argument Write passes to encodeBulkOutHeader
WriteEOM(len, at, thisLen) == TRUE

\* a Write that reuses the Device's tag
WriteTagReused(t) == t

\* the tag Write gives to a chunk
WriteTag(t) == nextbTag(t)

\* zero padding to a multiple of four
PadFour(data) ==
    LET moduloFour == Len(data) % 4
    IN  IF moduloFour > 0 THEN data \o Zeros(4 - moduloFour) ELSE data

\* a Write that counts the chunk the transport refused
WriteFailNCounted(at, thisLen) == at + thisLen

\* the count Write returns when the transport fails at position at
WriteFailN(at, thisLen) == at

\* Write returns (n, err) to its caller: to the user, to Command, or to the
\* Command inside Query
WriteReturns(n, err) ==
    /\ writeRet' = Ret(n, err)
    /\ IF op = "Write"
       THEN ret' = Ret(n, err) /\ pc' = "done"
       ELSE IF op = "Command" \/ err # "nil"
            THEN ret' = Ret(0, err) /\ pc' = "done"
            ELSE ret' = ret /\ pc' = "queryRead"

Write(L) ==
    /\ CanCall
    /\ Enter("Write")
    /\ cmd' = << >>
    /\ p' = Payload(L)
    /\ pc' = "write"
    /\ outLog' = << >>
    /\ ret' = NoRet
    /\ UNCHANGED <<startTag, devVars, rbuf, useTermChar>>

\* one iteration of Write's loop: one bulk-OUT transfer, accepted or refused
WriteIter ==
    /\ pc = "write"
    /\ pos < Len(p)
    /\ \E ok \in BOOLEAN :
         LET tag     == WriteTag(bTag)
             thisLen == ChunkLen(Len(p), pos)
             header  == encodeBulkOutHeader(tag, thisLen,
                                            WriteEOM(Len(p), pos, thisLen))
             data    == PadFour(header \o SubSeq(p, pos + 1, pos + thisLen))
         IN  /\ bTag' = tag
             /\ outLog' = Append(outLog, [data |-> data, ok |-> ok,
                                          by |-> "Write"])
             /\ IF ok
                THEN /\ pos' = pos + thisLen
                     /\ UNCHANGED <<pc, ret, writeRet>>
                ELSE /\ pos' = pos
                     /\ WriteReturns(WriteFailN(pos, thisLen), "transport")
    /\ UNCHANGED <<startTag, termChar, termCharEnabled, op, cmd, p, rbuf,
                   useTermChar, transfer, respHdr, written, inLog, prevTag,
                   entryTag, readRet, nOps>>

\* the loop condition fails: Write returns len(p)
WriteDone ==
    /\ pc = "write"
    /\ pos >= Len(p)
    /\ WriteReturns(Len(p), "nil")
    /\ UNCHANGED <<startTag, devVars, op, cmd, p, rbuf, useTermChar, pos, transfer,
                   respHdr, written, outLog, inLog, prevTag, entryTag, readRet,
                   nOps>>

----------------------------------------------------------------------------
\* doRead, behind Read, BulkRead and Query.

\* a temporary buffer of just len(p) + 12 bytes, not rounded up
TempSizeExact(plen) == plen + usbtmcHeaderLen

\* tempSz of readRemoveHeader: len(p) + 12 rounded up to a multiple of 512
TempSize(plen) ==
    LET tempSz == plen + usbtmcHeaderLen
        m      == tempSz % 512
    IN  IF m # 0 THEN tempSz + 512 - m ELSE tempSz

\* the builtin copy stores min(len(dst), len(src)) bytes
CopyLen(dstLen, srcLen) == Min(dstLen, srcLen)

\* readRemoveHeader(p) when the transport reports (n, err) and temp starts
\* with hdr: the returned n, transfer and err, and how many bytes of p it stored
readRemoveHeader(plen, n, err, hdr) ==
    IF err # "nil"
    THEN [n |-> 0, transfer |-> 0, err |-> err, stored |-> 0, hdr |-> << >>]
    ELSE IF n < usbtmcHeaderLen
    THEN [n |-> 0, transfer |-> 0, err |-> "short", stored |-> 0, hdr |-> << >>]
    ELSE LET toCopy == Min(TempSize(plen) - usbtmcHeaderLen, n - usbtmcHeaderLen)
         IN  [n        |-> n - usbtmcHeaderLen,
              transfer |-> Uint32(hdr, 4),
              err      |-> "nil",
              stored   |-> IF toCopy > 0 THEN CopyLen(plen, toCopy) ELSE 0,
              hdr      |-> hdr]

\* the caller buffer after k bytes of the response were stored at offset at
StoreAt(buf, at, k) ==
    [i \in 1..Len(buf) |-> IF at < i /\ i <= at + k THEN DevByte(i - 1) ELSE buf[i]]

\* dumpLen of one doRead iteration
DumpLen(resp, left) ==
    LET d == IF resp < 100 THEN resp ELSE 100
    IN  IF left < d THEN left ELSE d

\* the slice expression p[lo:hi] of a slice of length len is in range
SliceOK(lo, hi, len) == 0 <= lo /\ lo <= hi /\ hi <= len

\* a doRead that returns its position uncapped
doReadResultUncapped(at, xfer) == at

\* the value doRead returns after its loop
doReadResult(at, xfer) == Min(at, xfer)

\* doRead returns (n, err) with caller buffer buf: to the user, or to Query,
\* which slices p[:n]
doReadReturns(n, err, buf) ==
    /\ readRet' = Ret(n, err)
    /\ IF op # "Query"
       THEN ret' = Ret(n, err) /\ pc' = "done"
       ELSE IF err # "nil"
            THEN ret' = Ret(0, err) /\ pc' = "done"
            ELSE IF ~SliceOK(0, n, Len(buf))
                 THEN ret' = ret /\ pc' = "panic"
                 ELSE /\ ret' = [n |-> 0, err |-> "nil", s |-> SubSeq(buf, 1, n)]
                      /\ pc' = "done"

\* a doRead that asks for the terminator whatever its caller says
ReadTermCharAlways(utc, enabled) == enabled

\* the terminator argument doRead passes to encodeMsgInBulkOutHeader
ReadTermChar(utc, enabled) == utc /\ enabled

\* a doRead that advances the tag twice
ReadTagTwice(t) == nextbTag(nextbTag(t))

\* the tag doRead gives to its IN-request header
ReadTag(t) == nextbTag(t)

\* the head of doRead with a buffer of B bytes: the tag advances and the
\* IN-request header is written, accepted or refused by the transport
doReadEntry(B, utc) ==
    /\ bTag' = ReadTag(bTag)
    /\ rbuf' = Zeros(B)
    /\ useTermChar' = utc
    /\ pos' = 0
    /\ transfer' = 0
    /\ \E ok \in BOOLEAN :
         LET header == encodeMsgInBulkOutHeader(ReadTag(bTag), B,
                                                ReadTermChar(utc, termCharEnabled),
                                                termChar)
         IN  /\ outLog' = Append(IF pc = "queryRead" THEN outLog ELSE << >>,
                                  [data |-> header, ok |-> ok,
                                   by |-> "doRead"])
             /\ IF ok
                THEN pc' = "read" /\ ret' = NoRet /\ readRet' = NoRet
                ELSE doReadReturns(0, "transport", Zeros(B))

Read(B) ==
    /\ CanCall
    /\ op' = "Read"
    /\ nOps' = nOps + 1
    /\ prevTag' = LastTag
    /\ entryTag' = bTag
    /\ doReadEntry(B, TRUE)
    /\ cmd' = << >>
    /\ p' = << >>
    /\ inLog' = << >>
    /\ respHdr' = << >>
    /\ written' = 0
    /\ writeRet' = NoRet
    /\ UNCHANGED <<startTag, termChar, termCharEnabled>>

BulkRead(B) ==
    /\ CanCall
    /\ op' = "BulkRead"
    /\ nOps' = nOps + 1
    /\ prevTag' = LastTag
    /\ entryTag' = bTag
    /\ doReadEntry(B, FALSE)
    /\ cmd' = << >>
    /\ p' = << >>
    /\ inLog' = << >>
    /\ respHdr' = << >>
    /\ written' = 0
    /\ writeRet' = NoRet
    /\ UNCHANGED <<startTag, termChar, termCharEnabled>>

\* a doRead that goes on after a raw read without data
ReadEndsNever(resp) == FALSE

\* doRead gives up after a raw read without data
ReadEnds(resp) == resp = 0

\* the rest of one loop iteration of doRead, after the raw read returned resp
\* bytes, the transfer size xfer and err, and left the caller buffer as buf
ReadStep(resp, xfer, err, buf) ==
    /\ rbuf' = buf
    /\ transfer' = xfer
    /\ IF ~SliceOK(pos, DumpLen(resp, Len(rbuf) - pos), Len(rbuf))
       THEN pc' = "panic" /\ pos' = pos /\ UNCHANGED <<ret, readRet>>
       ELSE IF err # "nil"
       THEN pos' = pos /\ doReadReturns(pos, err, buf)
       ELSE IF ReadEnds(resp)
       THEN pos' = pos /\ doReadReturns(doReadResult(pos, xfer), "nil", buf)
       ELSE /\ pos' = pos + resp
            /\ IF pos + resp >= xfer
               THEN doReadReturns(doReadResult(pos + resp, xfer), "nil", buf)
               ELSE UNCHANGED <<pc, ret, readRet>>

\* the first loop iteration: readRemoveHeader on a raw read into temp
ReadFirst ==
    /\ pc = "read"
    /\ pos < Len(rbuf)
    /\ pos = 0
    /\ \E e \in {"nil", "transport"}, n \in FirstReadSizes(TempSize(Len(rbuf))),
          hdr \in RespHeaders :
         LET r == readRemoveHeader(Len(rbuf), n, e, hdr)
         IN  /\ ReadStep(r.n, r.transfer, r.err, StoreAt(rbuf, 0, r.stored))
             /\ respHdr' = r.hdr
             /\ written' = r.stored
             /\ inLog' = Append(inLog, [size |-> TempSize(Len(rbuf)), n |-> n,
                                        err |-> e, data |-> r.n])
    /\ UNCHANGED <<startTag, devVars, op, cmd, p, useTermChar, outLog, prevTag,
                   entryTag, writeRet, nOps>>

\* a later loop iteration: readKeepHeader, a raw read into p[pos:]
ReadNext ==
    /\ pc = "read"
    /\ pos < Len(rbuf)
    /\ pos # 0
    /\ \E e \in {"nil", "transport"}, n \in ContReadSizes(Len(rbuf) - pos) :
         /\ ReadStep(n, transfer, e, StoreAt(rbuf, pos, n))
         /\ written' = IF pos + n > written THEN pos + n ELSE written
         /\ inLog' = Append(inLog, [size |-> Len(rbuf) - pos, n |-> n,
                                    err |-> e, data |-> n])
    /\ UNCHANGED <<startTag, devVars, op, cmd, p, useTermChar, outLog, prevTag,
                   entryTag, writeRet, respHdr, nOps>>

\* the loop condition pos < len(p) fails
ReadLoopExit ==
    /\ pc = "read"
    /\ pos >= Len(rbuf)
    /\ doReadReturns(doReadResult(pos, transfer), "nil", rbuf)
    /\ UNCHANGED <<startTag, devVars, op, cmd, p, rbuf, useTermChar, pos, transfer,
                   respHdr, written, outLog, inLog, prevTag, entryTag, writeRet,
                   nOps>>

----------------------------------------------------------------------------
\* Command and Query.

IsSpace(b) == b \in {9, 10, 11, 12, 13, 32}

\* a TrimSpace that removes trailing white space only
TrimSpaceRight(s) ==
    LET keep == { i \in 1..Len(s) : ~IsSpace(s[i]) }
    IN  IF keep = {} THEN << >>
        ELSE SubSeq(s, 1, CHOOSE i \in keep : \A j \in keep : j <= i)

\* strings.TrimSpace: leading and trailing white space removed
TrimSpace(s) ==
    LET keep == { i \in 1..Len(s) : ~IsSpace(s[i]) }
    IN  IF keep = {} THEN << >>
        ELSE SubSeq(s, CHOOSE i \in keep : \A j \in keep : i <= j,
                       CHOOSE i \in keep : \A j \in keep : j <= i)

\* the bytes Command hands to WriteString
CommandBytes(text) == TrimSpace(text) \o << 10 >>

Command(format) ==
    /\ CanCall
    /\ Enter("Command")
    /\ cmd' = format
    /\ p' = CommandBytes(format)
    /\ pc' = "write"
    /\ outLog' = << >>
    /\ ret' = NoRet
    /\ UNCHANGED <<startTag, devVars, rbuf, useTermChar>>

Query(s) ==
    /\ CanCall
    /\ Enter("Query")
    /\ cmd' = s
    /\ p' = CommandBytes(s)
    /\ pc' = "write"
    /\ outLog' = << >>
    /\ ret' = NoRet
    /\ UNCHANGED <<startTag, devVars, rbuf, useTermChar>>

\* Query after its Command succeeded: Read into a buffer of 512 - 12 bytes
QueryRead ==
    /\ pc = "queryRead"
    /\ doReadEntry(maxPacketSize - usbtmcHeaderLen, TRUE)
    /\ UNCHANGED <<startTag, termChar, termCharEnabled, op, cmd, p, respHdr,
                   written, inLog, prevTag, entryTag, writeRet, nOps>>

----------------------------------------------------------------------------
\* The public method has returned: its frame is gone, the Device stays.

Return ==
    /\ pc = "done"
    /\ pc' = "idle"
    /\ op' = "none"
    /\ cmd' = << >>
    /\ p' = << >>
    /\ rbuf' = << >>
    /\ useTermChar' = FALSE
    /\ pos' = 0
    /\ transfer' = 0
    /\ respHdr' = << >>
    /\ written' = 0
    /\ outLog' = << >>
    /\ inLog' = << >>
    /\ prevTag' = LastTag
    /\ entryTag' = bTag
    /\ writeRet' = NoRet
    /\ readRet' = NoRet
    /\ ret' = NoRet
    /\ UNCHANGED <<startTag, devVars, nOps>>

----------------------------------------------------------------------------
\* Close.

Close ==
    /\ pc = "idle"
    /\ pc' = "closed"
    /\ UNCHANGED <<startTag, devVars, callVars>>

----------------------------------------------------------------------------

Next ==
    \/ \E t \in StartTags : SetStartTag(t)
    \/ NewDeviceByVIDPID
    \/ \E L \in WriteLens : Write(L)
    \/ WriteIter
    \/ WriteDone
    \/ \E B \in ReadLens : Read(B)
    \/ \E B \in ReadLens : BulkRead(B)
    \/ ReadFirst
    \/ ReadNext
    \/ ReadLoopExit
    \/ \E format \in CmdTexts : Command(format)
    \/ \E s \in CmdTexts : Query(s)
    \/ QueryRead
    \/ Return
    \/ Close

Spec == Init /\ [][Next]_vars

----------------------------------------------------------------------------
\* Vocabulary of the properties.

\* the largest payload of one bulk-OUT transfer
ChunkMax == maxTransferSize - bulkOutHeaderSize

CeilDiv(a, b) == (a + b - 1) \div b

\* the current call is a Read or a BulkRead
IsRead == op \in {"Read", "BulkRead"}

\* the bulk-OUT transfers of the current call that Write issued
IsByWrite(e) == e.by = "Write"

WriteLog == SelectSeq(outLog, IsByWrite)

\* the payload bytes transfer d carries, by its header
Carried(d) == SubSeq(d, bulkOutHeaderSize + 1, bulkOutHeaderSize + HdrTransferSize(d))

\* the first raw read of the current call delivered a header
GotHeader == respHdr # << >>

\* the transferSize the response header declared
Declared == HdrTransferSize(respHdr)

\* the last raw bulk-IN read of the current call
LastIn == inLog[Len(inLog)]

\* the current call is over: it returned or it panicked
CallOver == pc \in {"done", "panic"}

----------------------------------------------------------------------------
\* C1: a Read / BulkRead whose response header declares T and whose raw reads
\* all succeed and all deliver data, no more than T bytes in total, returns
\* min(T, B) without error and never stores past the caller buffer.
C1_ReadReturnsMinTB ==
    ( /\ IsRead
      /\ CallOver
      /\ GotHeader
      /\ \A i \in 1..Len(inLog) : inLog[i].err = "nil" /\ inLog[i].data > 0
      /\ pos <= Declared )
    => ( /\ pc = "done"
         /\ ret.err = "nil"
         /\ ret.n = Min(Declared, Len(rbuf))
         /\ written <= Len(rbuf) )

\* C2: a Write whose transport never fails issues ceil(L/500) transfers that
\* carry the payload in order, each header declares the bytes its transfer
\* carries, each transfer is header + payload + zero padding of a length that
\* is a multiple of 4, and it returns (L, nil).
C2_WriteChunking ==
    LET L == Len(p)
        k == Len(WriteLog)
    IN  (pc # "ctx" /\ \A i \in 1..k : WriteLog[i].ok)
        => /\ \A i \in 1..k :
                LET d  == WriteLog[i].data
                    sz == HdrTransferSize(d)
                IN  /\ sz = Min(ChunkMax, L - ChunkMax * (i - 1))
                    /\ sz > 0
                    /\ Carried(d) = SubSeq(p, ChunkMax * (i - 1) + 1,
                                           ChunkMax * (i - 1) + sz)
                    /\ Len(d) % 4 = 0
                    /\ Len(d) - (bulkOutHeaderSize + sz) \in 0..3
                    /\ \A j \in (bulkOutHeaderSize + sz + 1)..Len(d) : d[j] = 0
           /\ writeRet.err = "nil"
                => /\ k = CeilDiv(L, ChunkMax)
                   /\ writeRet.n = L
           /\ writeRet.err # "transport"

\* a Write of more than two full chunks has returned (L, nil)
C2_Witness ==
    /\ op = "Write"
    /\ pc = "done"
    /\ ret = Ret(Len(p), "nil")
    /\ Len(p) > 2 * ChunkMax
    /\ Len(p) % ChunkMax # 0
    /\ Len(outLog) = 3

\* C3: in a Write of k transfers the EOM attribute is set in the header of the
\* k-th transfer and in no earlier one.
C3_EOMOnFinalOnly ==
    writeRet.err = "nil"
    => \A i \in 1..Len(WriteLog) :
          HdrEOM(WriteLog[i].data) <=> i = Len(WriteLog)

\* C4: a Write of an empty payload performs exactly one bulk-OUT write, of a
\* header with transferSize 0 and EOM set, and advances the tag once.
C4_EmptyWriteOneTransfer ==
    (op = "Write" /\ pc = "done" /\ Len(p) = 0)
    => /\ Len(outLog) = 1
       /\ Len(outLog[1].data) = bulkOutHeaderSize
       /\ HdrTransferSize(outLog[1].data) = 0
       /\ HdrEOM(outLog[1].data)
       /\ bTag = nextbTag(entryTag)

\* C5: when the transport refuses chunk i of a Write, chunk i is the last
\* transport call of the Write and of the public call, which returns the
\* transport error; Write's count is the payload carried by chunks 1..i-1.
C5_WriteFailure ==
    LET k == Len(outLog)
    IN  (pc # "ctx" /\ \E i \in 1..Len(WriteLog) : ~WriteLog[i].ok)
        => /\ ~outLog[k].ok
           /\ \A j \in 1..(k - 1) : outLog[j].ok
           /\ inLog = << >>
           /\ pc = "done"
           /\ writeRet = Ret(ChunkMax * (k - 1), "transport")
           /\ \A j \in 1..(k - 1) : HdrTransferSize(outLog[j].data) = ChunkMax
           /\ writeRet.n < Len(p)
           /\ ret.err = "transport"
           /\ op = "Write" => ret = writeRet

\* the transport refused the second chunk of a Write
C5_Witness ==
    /\ op = "Write"
    /\ pc = "done"
    /\ Len(outLog) = 2
    /\ ~outLog[2].ok
    /\ ret = Ret(ChunkMax, "transport")

\* C6: a Read / BulkRead whose response header has tagInverse # 0xFF - tag
\* returns a protocol-integrity error.
C6_BadInverseIsError ==
    (IsRead /\ pc = "done" /\ GotHeader /\ BadInv(respHdr))
    => ret.err = "integrity"

\* C7: a raw read that delivers no data bytes, on the first transfer (header
\* only) or later, ends the Read / BulkRead without error: it returns the
\* bytes accumulated so far, capped by the declared transferSize.
C7_ZeroLengthEndsRead ==
    ( /\ IsRead
      /\ CallOver
      /\ GotHeader
      /\ LastIn.err = "nil"
      /\ LastIn.data = 0 )
    => ( /\ pc = "done"
         /\ ret = Ret(Min(pos, Declared), "nil") )

\* C8: a doRead that returns without error returns a count that is at most
\* the transferSize of the response header (0 when no response was read).
C8_CountAtMostDeclared ==
    readRet.err = "nil"
    => /\ readRet.n <= (IF GotHeader THEN Declared ELSE 0)
       /\ readRet.n >= 0

\* the device delivered more than it declared into a buffer with room for it
C8_Witness ==
    /\ IsRead
    /\ pc = "done"
    /\ ret.err = "nil"
    /\ GotHeader
    /\ pos > Declared
    /\ Declared > 0
    /\ written = pos
    /\ ret.n = Declared

\* C9: every bulk-OUT header carries a tag different from that of the header
\* emitted just before it, the headers of one call carry consecutive tags of
\* the sequence, and every header's tagInverse is 0xFF - tag.
C9_TagsDistinct ==
    \A i \in 1..Len(outLog) :
        LET h    == outLog[i].data
            last == IF i = 1 THEN prevTag ELSE HdrTag(outLog[i - 1].data)
        IN  /\ HdrTag(h) # last
            /\ HdrTag(h) = nextbTag(IF i = 1 THEN entryTag ELSE last)
            /\ HdrTagInverse(h) = 255 - HdrTag(h)
            /\ HdrTag(h) \in 1..255

\* the second call on a Device emits three headers after the tag wrapped
C9_Witness ==
    /\ nOps = 2
    /\ prevTag = 255
    /\ Len(outLog) = 3
    /\ HdrTag(outLog[1].data) = 1
    /\ HdrTag(outLog[3].data) = 3

\* C10: a Read / BulkRead whose raw read fails, or whose first raw read is
\* shorter than a header, returns that error with the count accumulated
\* before the failure, which is 0 on the first transfer.
C10_ReadFailure ==
    ( /\ IsRead
      /\ CallOver
      /\ inLog # << >>
      /\ LastIn.err = "transport" \/ (Len(inLog) = 1 /\ LastIn.n < usbtmcHeaderLen) )
    => ( /\ pc = "done"
         /\ ret.err = (IF LastIn.err = "transport" THEN "transport" ELSE "short")
         /\ ret.n = pos
         /\ Len(inLog) = 1 => ret.n = 0 )

----------------------------------------------------------------------------
\* More vocabulary.

\* the bulk-OUT transfers of the current call that doRead issued
IsByDoRead(e) == e.by = "doRead"

ReadReqLog == SelectSeq(outLog, IsByDoRead)

\* the Write of the current call was refused by the transport
WriteFailed == \E i \in 1..Len(WriteLog) : ~WriteLog[i].ok

\* the doRead of the current call failed: its header was refused, a raw read
\* failed, or the first raw read was shorter than a header
ReadFailed ==
    \/ \E i \in 1..Len(ReadReqLog) : ~ReadReqLog[i].ok
    \/ \E i \in 1..Len(inLog) : inLog[i].err = "transport"
    \/ (inLog # << >> /\ inLog[1].err = "nil" /\ inLog[1].n < usbtmcHeaderLen)

\* body is text without the white space at its end
IsTrailingTrimOf(body, text) ==
    \E k \in 0..Len(text) :
        /\ body = SubSeq(text, 1, k)
        /\ k = 0 \/ ~IsSpace(text[k])
        /\ \A j \in (k + 1)..Len(text) : IsSpace(text[j])

\* body is text without the white space at its start and at its end
IsTrimOf(body, text) ==
    \E i \in 1..(Len(text) + 1) : \E k \in (i - 1)..Len(text) :
        /\ body = SubSeq(text, i, k)
        /\ \A j \in 1..(i - 1) : IsSpace(text[j])
        /\ \A j \in (k + 1)..Len(text) : IsSpace(text[j])
        /\ k >= i => (~IsSpace(text[i]) /\ ~IsSpace(text[k]))

\* what a Command does besides choosing its payload: one Write, no read, the
\* Write's error returned, and a short payload in one EOM transfer
CommandRest ==
    /\ inLog = << >>
    /\ ReadReqLog = << >>
    /\ Len(p) >= 1
    /\ p[Len(p)] = 10
    /\ pc = "done"
         => /\ ret.err = writeRet.err
            /\ ret.err # "nil" <=> WriteFailed
            /\ (ret.err = "nil" /\ Len(p) <= ChunkMax)
                 => /\ Len(outLog) = 1
                    /\ Carried(outLog[1].data) = p
                    /\ HdrTransferSize(outLog[1].data) = Len(p)
                    /\ HdrEOM(outLog[1].data)

----------------------------------------------------------------------------
\* C11: a Query writes its command and, only if that succeeds, does one
\* terminator-aware read into a buffer of 500 bytes; it returns, with an
\* error iff the write or the read failed, with the empty string when the
\* read reported 0 bytes, and else with the n bytes the read reported.
C11_Query ==
    op = "Query"
    => /\ Len(ReadReqLog) <= 1
       /\ ReadReqLog # << >>
            => /\ ~WriteFailed
               /\ writeRet.err = "nil"
               /\ Len(rbuf) = 500
               /\ HdrTransferSize(ReadReqLog[1].data) = 500
               /\ HdrTermCharBit(ReadReqLog[1].data)
       /\ WriteFailed => (inLog = << >> /\ ReadReqLog = << >>)
       /\ inLog # << >> => ReadReqLog # << >>
       /\ CallOver
            => /\ pc = "done"
               /\ ret.err # "nil" <=> (WriteFailed \/ ReadFailed)
               /\ ret.err = "nil"
                    => /\ readRet.err = "nil"
                       /\ ret.s = SubSeq(rbuf, 1, readRet.n)
                       /\ readRet.n = 0 => ret.s = << >>

\* C12: a Command does one Write whose payload is its text without the white
\* space at its end, followed by a newline; it never reads, and returns an
\* error iff the Write failed.
C12_CommandTrailingTrim ==
    op = "Command"
    => /\ IsTrailingTrimOf(SubSeq(p, 1, Len(p) - 1), cmd)
       /\ CommandRest

\* C12, amended: the payload is the text without the white space at its
\* start and at its end, followed by a newline.
C12_CommandTrim ==
    op = "Command"
    => /\ IsTrimOf(SubSeq(p, 1, Len(p) - 1), cmd)
       /\ CommandRest

\* a Command whose text starts and ends with white space has returned
C12_Witness ==
    /\ op = "Command"
    /\ pc = "done"
    /\ ret.err = "nil"
    /\ cmd = <<32, 65, 32, 10>>
    /\ p = <<65, 10>>
    /\ Len(outLog) = 1

\* C13: a Read / BulkRead advances the tag once and writes one 12-byte
\* IN-request header before any bulk-IN read; the header asks for len(buffer)
\* bytes and has the terminator bit set iff useTermChar and the Device's
\* termCharEnabled (never for BulkRead); when the transport refuses the header
\* the call returns (0, error) without a bulk-IN read.
C13_ReadRequest ==
    /\ IsRead
         => /\ Len(outLog) = 1
            /\ ReadReqLog = outLog
            /\ bTag = nextbTag(entryTag)
            /\ useTermChar <=> op = "Read"
    /\ inLog # << >> => (ReadReqLog # << >> /\ ReadReqLog[1].ok)
    /\ ReadReqLog # << >>
         => LET h == ReadReqLog[1].data
            IN  /\ Len(ReadReqLog) = 1
                /\ Len(h) = usbtmcHeaderLen
                /\ h[1] = devDepMsgIn
                /\ HdrTag(h) = bTag
                /\ HdrTransferSize(h) = Len(rbuf)
                /\ HdrTermCharBit(h) <=> (useTermChar /\ termCharEnabled)
                /\ op = "BulkRead" => ~HdrTermCharBit(h)
                /\ ~ReadReqLog[1].ok
                     => /\ inLog = << >>
                        /\ pc = "done"
                        /\ readRet = Ret(0, "transport")
                        /\ ret = Ret(0, "transport")

\* a BulkRead has sent its header, without the terminator bit, and has read
C13_Witness ==
    /\ op = "BulkRead"
    /\ Len(rbuf) > 0
    /\ inLog # << >>
    /\ ~HdrTermCharBit(outLog[1].data)
    /\ HdrTransferSize(outLog[1].data) = Len(rbuf)

\* C14: in every state of a Read / BulkRead / Query read, the byte count
\* accumulated for the caller buffer is at most min(len(buffer), declared
\* transferSize).
C14_PosBounded ==
    (op \in {"Read", "BulkRead", "Query"} /\ GotHeader)
    => pos <= Min(Len(rbuf), Declared)

\* C15: the tag of a Device is never the reserved value 0, whatever value
\* SetStartTag was given, and no emitted header carries tag 0.
C15_TagNeverZero ==
    pc # "ctx"
    => /\ bTag \in 1..255
       /\ \A i \in 1..Len(outLog) : HdrTag(outLog[i].data) \in 1..255

\* C16: the first transfer a Device sends carries the Context's start tag:
\* the value given to SetStartTag, or 1 when it was never called.
C16_FirstTagIsStartTag ==
    (prevTag = -1 /\ outLog # << >>)
    => HdrTag(outLog[1].data) = startTag

\* C17: every slice expression of Read / BulkRead / Query is in range: no
\* read operation ends in a run-time panic.
C17_SlicesInRange == pc # "panic"

\* the data bytes delivered by the first k raw reads of the current call
RECURSIVE SumData(_)
SumData(k) == IF k = 0 THEN 0 ELSE SumData(k - 1) + inLog[k].data

\* C18: a doRead with a buffer of B bytes issues at most B raw reads: while
\* it stays in its loop every raw read has delivered at least one byte and
\* pos is their sum; with B = 0 it issues none and returns (0, nil).
C18_ReadTerminates ==
    /\ Len(inLog) <= Len(rbuf)
    /\ pc = "read"
         => /\ \A i \in 1..Len(inLog) : inLog[i].data >= 1 /\ inLog[i].err = "nil"
            /\ pos = SumData(Len(inLog))
    /\ (IsRead /\ Len(rbuf) = 0 /\ outLog[1].ok)
         => /\ inLog = << >>
            /\ pc \in {"read", "done"}
            /\ pc = "done" => ret = Ret(0, "nil")

\* a Read into two bytes has returned after two raw reads
C18_Witness ==
    /\ IsRead
    /\ pc = "done"
    /\ Len(rbuf) = 2
    /\ Len(inLog) = 2
    /\ ret = Ret(2, "nil")

\* C19: the first raw read of a doRead is into a buffer whose size is the
\* smallest multiple of 512 that is at least B + 12; every later raw read is
\* into the rest of the caller buffer, B less the position, and what it
\* delivers is data, with no header taken off.
C19_RawReadSizes ==
    \A i \in 1..Len(inLog) :
        IF i = 1
        THEN /\ inLog[1].size % 512 = 0
             /\ inLog[1].size >= Len(rbuf) + 12
             /\ inLog[1].size - 512 < Len(rbuf) + 12
        ELSE /\ inLog[i].size = Len(rbuf) - SumData(i - 1)
             /\ inLog[i].size >= 1
             /\ inLog[i].data = inLog[i].n

\* a Read into more than 500 bytes got a 1024-byte first raw read and went on
\* to a second raw read
C19_Witness ==
    /\ IsRead
    /\ Len(rbuf) > 500
    /\ Len(inLog) = 2
    /\ inLog[1].size = 1024
    /\ inLog[2].size = Len(rbuf) - inLog[1].data

\* the tag after k bulk-OUT writes from tag t
RECURSIVE TagAfter(_, _)
TagAfter(t, k) == IF k = 0 THEN t ELSE nextbTag(TagAfter(t, k - 1))

\* C20: the tag has advanced exactly once per bulk-OUT write attempted by the
\* current call, refused ones included, and not otherwise (not by a bulk-IN
\* read, not by Close); termChar and termCharEnabled never change.
C20_TagPerWrite ==
    pc # "ctx"
    => /\ bTag = TagAfter(entryTag, Len(outLog))
       /\ termChar = 10
       /\ termCharEnabled = TRUE

\* a Read whose header went out has made two raw reads, the second refused
C20_Witness ==
    /\ IsRead
    /\ Len(inLog) = 2
    /\ inLog[2].err = "transport"
    /\ Len(outLog) = 1
    /\ bTag = nextbTag(entryTag)
    /\ bTag # entryTag

====
